---- MODULE Spec2Model ----
(***************************************************************************)
(* Model of the bulk ingestion pipeline of challenge-1 (processDataDump   *)
(* and its helpers): fetch, extract, type inference, the table guard,     *)
(* table provisioning and the batched, transactional CSV load.            *)
(*                                                                         *)
(* The destination store is abstracted to, per table, whether it exists   *)
(* and how many rows it holds.  A source file is abstracted to its number *)
(* of data rows.  Event handlers of the CSV stream are separate steps: an *)
(* async 'data' or 'end' handler runs up to its first await in one step,  *)
(* and a batch insert it started completes in a later step.               *)
(***************************************************************************)
EXTENDS Integers, Sequences, FiniteSets, TLC

\* ------------------------------------------------------------------ bounds
\* Largest number of data rows of a source file.
MaxRows == 25
\* Largest number of rows of a table that exists before the first run.
MaxInitRows == 2
\* Number of invocations of processDataDump in one behaviour.
MaxRuns == 2

\* ------------------------------------------------------- program constants
\* const batchSize: number = 10;
batchSize == 10

Datasets == {"customers", "organizations"}

Other(t) == IF t = "customers" THEN "organizations" ELSE "customers"

Absent == [exists |-> FALSE, rows |-> 0]

Table(n) == [exists |-> TRUE, rows |-> n]

VARIABLES
  csvRows,     \* data rows of ./tmp/extracted/dump/<t>.csv
  store,       \* the SQLite database: per table, existence and row count
  store0,      \* the store as it was when the current run started
  created,     \* tables on which this run's createTable took effect
  run,         \* number of the current invocation of processDataDump
  pc,          \* position of processDataDump
  guardResult, \* what checkAndVerifyTables did in this run (none: not run yet)
  setupTask,   \* state of the two concurrent setupDatabase calls
  pos,         \* rows the CSV stream has emitted so far (processCSV)
  rowsLen,     \* rows.length of processCSV
  ended,       \* the stream's 'end' event has been emitted
  trx,         \* the load transaction: none, open, resolved, rejected
  trxRows,     \* rows inserted inside the open transaction
  inflight,    \* batch inserts started and not yet completed, oldest first
  insertFailed,\* tables a batch insert of this run failed on
  loadErr,     \* tables whose processCSV ran its catch block in this run
  faulted,     \* a fault (fetch, extract, insert) was injected in this run
  stage,       \* outcome of the run's first stages: none (not run), ok, failed
  issued,      \* per table, the batches processCSV has issued in this run
  prevRun      \* the previous run: the store it found, whether it had a load
               \* error, whether it aborted after DDL, the tables it created

\* Calls of the pipeline's helpers on inputs of their own (inferType,
\* inferColumnTypes, setupDatabase), outside a run of processDataDump.
VARIABLES
  task,          \* the helper that is called; "none" in a pipeline run
  outcome,       \* how the call ended; "none" while it has not
  value,         \* inferType: the argument
  result,        \* inferType: the type returned
  file,          \* inferColumnTypes: the CSV file, header and data rows
  sampleSize,    \* inferColumnTypes: the sampleSize argument
  rowsRead,      \* inferColumnTypes: data rows the stream has emitted
  sampleRows,    \* inferColumnTypes: the sampleRows array
  inferredTypes, \* inferColumnTypes: the inferredTypes record
  schema,        \* setupDatabase: the entries of its inferredTypes argument
  table          \* setupDatabase: the columns of the table; <<>> when absent

helperVars == <<task, outcome, value, result, file, sampleSize, rowsRead,
                sampleRows, inferredTypes, schema, table>>

\* The state of the domain cart, the Challenge component of challenge-3.
VARIABLES
  objects,     \* the DomainInfo objects created so far; an entry of the cart
               \* or of a saved cart is the index of its object
  cart,        \* useState cart
  cartHistory, \* useState cartHistory: the carts saved for undo
  redoStack,   \* useState redoStack: the carts saved for redo
  checks,      \* the availability requests of checkDomains in flight
  isOpen,      \* useState isOpen: the purchase dialog is shown
  domainInput, \* useState domainInput: the text of the input field
  toast,       \* the warning toast on screen, "none" when there is none;
               \* the toasts that only report what a handler did are
               \* left out
  localStorage, \* the value stored under the key 'cart'
  mounted      \* the Challenge component is mounted

cartVars == <<objects, cart, cartHistory, redoStack, checks, isOpen,
              domainInput, toast, localStorage, mounted>>

\* The scraper of challenge-2 (buildCompanyAndLaunchArticleJSONDatasets).
VARIABLES
  csvLen,      \* number of data rows of inputs/companies.csv
  rowCount,    \* let rowCount: the rows the 'data' handler has taken
  rows,        \* const rows: the row buffer, a row being its number
  paused,      \* csvStream is paused
  streamEnded, \* csvStream has emitted 'end', or the source 'error'
  running,     \* the rows whose scrapeCompany call is in flight
  handed,      \* per row, how often its URL was handed to scrapeCompany
  batch,       \* the runCrawlersInBatches call in flight: the handler
               \* that made it and whether its Promise.all has rejected
  settled      \* the returned promise: pending, resolved or rejected

scraperVars == <<csvLen, rowCount, rows, paused, streamEnded, running, handed,
                 batch, settled>>

\* State that no step of the pipeline changes.
envVars == <<csvRows, helperVars, cartVars, scraperVars>>

vars == <<envVars, store, store0, created, run, pc, guardResult, setupTask, pos,
          rowsLen, ended, trx, trxRows, inflight, insertFailed, loadErr,
          faulted, stage, issued, prevRun>>

loaderVars == <<pos, rowsLen, ended, trx, trxRows>>

\* The variables of the pipeline.
pipelineVars ==
  <<csvRows, store, store0, created, run, pc, guardResult, setupTask, pos,
    rowsLen, ended, trx, trxRows, inflight, insertFailed, loadErr, faulted,
    stage, issued, prevRun>>

\* An absent argument or result of a helper.
None == "none"

\* Date.parse gave NaN, or the time value t.
NaN == [nan |-> TRUE, time |-> 0]

Time(t) == [nan |-> FALSE, time |-> t]

\* A string value of a CSV cell: its characters, and what Date.parse gives
\* for it when it is not in the ISO date format (the fallback is left to
\* the implementation).
Value(text, legacy) == [text |-> text, legacy |-> legacy]

\* A record with no property, {}.
EmptyRecord == [h \in {} |-> None]

\* No helper is called.
HelpersIdle ==
  /\ task = None
  /\ outcome = None
  /\ value = Value(<<>>, NaN)
  /\ result = None
  /\ file = [headers |-> <<>>, rows |-> <<>>]
  /\ sampleSize = 0
  /\ rowsRead = 0
  /\ sampleRows = <<>>
  /\ inferredTypes = EmptyRecord
  /\ schema = <<>>
  /\ table = <<>>

\* The cart component is not mounted.
\* No call of the scraper.
NoBatch == [by |-> "none", rejected |-> FALSE]

ScraperIdle ==
  /\ csvLen = 0
  /\ rowCount = 0
  /\ rows = <<>>
  /\ paused = FALSE
  /\ streamEnded = FALSE
  /\ running = {}
  /\ handed = <<>>
  /\ batch = NoBatch
  /\ settled = None

CartIdle ==
  /\ objects = <<>>
  /\ cart = <<>>
  /\ cartHistory = <<>>
  /\ redoStack = <<>>
  /\ checks = {}
  /\ isOpen = FALSE
  /\ domainInput = <<>>
  /\ toast = None
  /\ localStorage = <<>>
  /\ mounted = TRUE

NoRun ==
  [loadErr |-> FALSE, aborted |-> FALSE, created |-> {},
   store0 |-> [t \in Datasets |-> Absent]]

Ended == {"returned", "failed", "crashed"}

\* The stages of processDataDump that come before the guard.
Stages == {"downloadFile", "decompressAndExtract", "inferColumnTypes"}

\* A batch of source rows, first..last, numbered from 1 in file order.
Rows(first, last) == [first |-> first, last |-> last]

\* No asynchronous work of an earlier run is left.
Quiescent ==
  /\ inflight = <<>>
  /\ \A t \in Datasets : setupTask[t] # "pending"

Init ==
  /\ csvRows \in [Datasets -> 0..MaxRows]
  /\ store \in [Datasets -> {Absent} \cup {Table(n) : n \in 0..MaxInitRows}]
  /\ store0 = store
  /\ created = {}
  /\ run = 1
  /\ pc = "downloadFile"
  /\ guardResult = "none"
  /\ setupTask = [t \in Datasets |-> "idle"]
  /\ pos = 0
  /\ rowsLen = 0
  /\ ended = FALSE
  /\ trx = "none"
  /\ trxRows = 0
  /\ inflight = <<>>
  /\ insertFailed = {}
  /\ loadErr = {}
  /\ faulted = FALSE
  /\ stage = [s \in Stages |-> "none"]
  /\ issued = [t \in Datasets |-> <<>>]
  /\ prevRun = NoRun
  /\ HelpersIdle
  /\ CartIdle
  /\ ScraperIdle

\* ------------------------------------------------------- processDataDump
\* await downloadFile(tarGzUrl, tarGzDest): resolves, or rejects and the
\* catch block of processDataDump rethrows.
downloadFile ==
  /\ pc = "downloadFile"
  /\ \E ok \in BOOLEAN :
       /\ pc' = IF ok THEN "decompressAndExtract" ELSE "failed"
       /\ faulted' = (faulted \/ ~ok)
       /\ stage' = [stage EXCEPT
                      !["downloadFile"] = IF ok THEN "ok" ELSE "failed"]
  /\ UNCHANGED <<insertFailed, guardResult, envVars, store, store0, created,
                 run, setupTask, loaderVars, inflight, loadErr, prevRun,
                 issued>>

\* Variant of decompressAndExtract: a failed extraction is swallowed and the
\* run goes on to type inference.
decompressAndExtractSwallows ==
  /\ pc = "decompressAndExtract"
  /\ \E ok \in BOOLEAN :
       /\ pc' = "inferColumnTypes"
       /\ faulted' = (faulted \/ ~ok)
       /\ stage' = [stage EXCEPT
                      !["decompressAndExtract"] = IF ok THEN "ok" ELSE "failed"]
  /\ UNCHANGED <<insertFailed, guardResult, envVars, store, store0, created,
                 run, setupTask, loaderVars, inflight, loadErr, prevRun,
                 issued>>

\* await decompressAndExtract(tarGzDest, extractDest)
decompressAndExtract ==
  /\ pc = "decompressAndExtract"
  /\ \E ok \in BOOLEAN :
       /\ pc' = IF ok THEN "inferColumnTypes" ELSE "failed"
       /\ faulted' = (faulted \/ ~ok)
       /\ stage' = [stage EXCEPT
                      !["decompressAndExtract"] = IF ok THEN "ok" ELSE "failed"]
  /\ UNCHANGED <<insertFailed, guardResult, envVars, store, store0, created,
                 run, setupTask, loaderVars, inflight, loadErr, prevRun,
                 issued>>

\* inferColumnTypes reads sampleRows[0] in the stream's 'end' listener; with
\* no data row Object.keys(undefined) throws inside the listener, outside
\* any promise: the returned promise never settles and the exception is
\* uncaught.
inferThrows(t) == csvRows[t] = 0

\* await Promise.all([inferColumnTypes(customers.csv),
\*                    inferColumnTypes(organizations.csv)])
inferColumnTypes ==
  /\ pc = "inferColumnTypes"
  /\ pc' = IF \E t \in Datasets : inferThrows(t) THEN "crashed"
           ELSE "checkAndVerifyTables"
  /\ stage' = [stage EXCEPT !["inferColumnTypes"] =
               IF \E t \in Datasets : inferThrows(t) THEN "failed" ELSE "ok"]
  /\ UNCHANGED <<insertFailed, guardResult, envVars, store, store0, created,
                 run, setupTask, loaderVars, inflight, loadErr, faulted,
                 prevRun, issued>>

checkTableExistence(t) == store[t].exists

countRowsInTable(t) == store[t].rows

countRowsInCSV(t) == csvRows[t]

\* assert(dbCustomerCount !== csvCustomerCount, ...) and the same for
\* organizations: the assertion holds when the counts differ.
assertCounts(t) == countRowsInTable(t) # countRowsInCSV(t)

\* Outcome of checkAndVerifyTables: "true", "false" or "throws".
checkAndVerifyTables ==
  IF checkTableExistence("customers") /\ checkTableExistence("organizations")
  THEN IF assertCounts("customers") /\ assertCounts("organizations")
       THEN "true" ELSE "throws"
  ELSE "false"

\* Variant of guardStep: when both tables exist the run skips provisioning
\* only and goes on to load.
guardStepSkipsSetupOnly ==
  /\ pc = "checkAndVerifyTables"
  /\ guardResult' = checkAndVerifyTables
  /\ IF checkAndVerifyTables = "false"
     THEN /\ pc' = "setupDatabase"
          /\ setupTask' = [t \in Datasets |-> "pending"]
          /\ UNCHANGED loaderVars
     ELSE /\ pc' = "customers"
          /\ setupTask' = [t \in Datasets |-> "done"]
          /\ pos' = 0 /\ rowsLen' = 0 /\ ended' = FALSE
          /\ trx' = "open" /\ trxRows' = 0
  /\ UNCHANGED <<insertFailed, envVars, store, store0, created, run, inflight,
                 loadErr, faulted, prevRun, stage, issued>>

\* if (await checkAndVerifyTables(db)) return;  then both setupDatabase
\* calls are started.
guardStep ==
  /\ pc = "checkAndVerifyTables"
  /\ pc' = CASE checkAndVerifyTables = "true" -> "returned"
             [] checkAndVerifyTables = "throws" -> "failed"
             [] OTHER -> "setupDatabase"
  /\ guardResult' = checkAndVerifyTables
  /\ setupTask' = IF checkAndVerifyTables = "false"
                  THEN [t \in Datasets |-> "pending"] ELSE setupTask
  /\ UNCHANGED <<insertFailed, envVars, store, store0, created, run,
                 loaderVars, inflight, loadErr, faulted, prevRun, stage,
                 issued>>

\* Variant of createTableFails: creation never fails, an existing table is
\* replaced by a new empty one.
createTableReplaces(t) == FALSE

\* db.schema.createTable(tableName, ...) fails when the table exists.
createTableFails(t) == store[t].exists

\* One setupDatabase call runs to completion.  It is not cancelled when the
\* sibling call has failed and processDataDump has already thrown.
setupDatabase(t) ==
  /\ setupTask[t] = "pending"
  /\ IF createTableFails(t)
     THEN /\ setupTask' = [setupTask EXCEPT ![t] = "failed"]
          /\ UNCHANGED <<store, created>>
     ELSE /\ setupTask' = [setupTask EXCEPT ![t] = "done"]
          /\ store' = [store EXCEPT ![t] = Table(0)]
          /\ created' = created \cup {t}
  /\ UNCHANGED <<insertFailed, guardResult, envVars, store0, run, pc,
                 loaderVars, inflight, loadErr, faulted, prevRun, stage,
                 issued>>

\* await Promise.all([setupDatabase(...), setupDatabase(...)]): rejects as
\* soon as one call has failed, resolves when both are done; then
\* processCSV(db, customers.csv, 'customers') opens its transaction.
awaitSetup ==
  /\ pc = "setupDatabase"
  /\ \/ /\ \E t \in Datasets : setupTask[t] = "failed"
        /\ pc' = "failed"
        /\ UNCHANGED loaderVars
     \/ /\ \A t \in Datasets : setupTask[t] = "done"
        /\ pc' = "customers"
        /\ pos' = 0 /\ rowsLen' = 0 /\ ended' = FALSE
        /\ trx' = "open" /\ trxRows' = 0
  /\ UNCHANGED <<insertFailed, guardResult, envVars, store, store0, created,
                 run, setupTask, inflight, loadErr, faulted, prevRun, stage,
                 issued>>

\* ------------------------------------------------------------ processCSV
\* The promise handed to db.transaction settles once: the first resolve or
\* reject wins.
resolve(state) == IF state = "open" THEN "resolved" ELSE state

reject(state) == IF state = "open" THEN "rejected" ELSE state

\* A batch insert started by a handler: its table, its number of rows, and
\* whether it is the one the 'end' handler awaits.
Insert(t, n, final) == [table |-> t, n |-> n, final |-> final]

\* .on('data', async (row) => { rows.push(row);
\*    if (rows.length >= batchSize) await trx.batchInsert(tableName,
\*        rows.splice(0, batchSize), batchSize).catch(reject); })
\* The stream does not wait for the handler: the insert is left in flight.
onData ==
  /\ pc \in Datasets
  /\ ~ended
  /\ pos < csvRows[pc]
  /\ pos' = pos + 1
  /\ IF rowsLen + 1 >= batchSize
     THEN /\ inflight' = Append(inflight, Insert(pc, batchSize, FALSE))
          /\ issued' = [issued EXCEPT ![pc] =
               Append(@, Rows(pos - rowsLen + 1, pos - rowsLen + batchSize))]
          /\ rowsLen' = rowsLen + 1 - batchSize
     ELSE /\ rowsLen' = rowsLen + 1
          /\ UNCHANGED <<inflight, issued>>
  /\ UNCHANGED <<insertFailed, guardResult, envVars, store, store0, created,
                 run, pc, setupTask, ended, trx, trxRows, loadErr, faulted,
                 prevRun, stage>>

\* .on('end', async () => {
\*    if (rows.length)
\*      await trx.batchInsert(tableName, rows, batchSize).catch(reject);
\*    resolve(); })
\* With rows left the handler suspends on its own insert; with none it
\* resolves at once, whatever inserts of 'data' handlers are in flight.
onEnd ==
  /\ pc \in Datasets
  /\ ~ended
  /\ pos = csvRows[pc]
  /\ ended' = TRUE
  /\ IF rowsLen > 0
     THEN /\ inflight' = Append(inflight, Insert(pc, rowsLen, TRUE))
          /\ issued' = [issued EXCEPT ![pc] =
               Append(@, Rows(pos - rowsLen + 1, pos))]
          /\ UNCHANGED trx
     ELSE /\ trx' = resolve(trx)
          /\ UNCHANGED <<inflight, issued>>
  /\ UNCHANGED <<insertFailed, guardResult, envVars, store, store0, created,
                 run, pc, setupTask, pos, rowsLen, trxRows, loadErr, faulted,
                 prevRun, stage>>

\* .on('error', reject): the stream fails while it is read; no further
\* 'data' or 'end' event follows.
onError ==
  /\ pc \in Datasets
  /\ ~ended
  /\ ended' = TRUE
  /\ trx' = reject(trx)
  /\ faulted' = TRUE
  /\ UNCHANGED <<insertFailed, guardResult, envVars, store, store0, created,
                 run, pc, setupTask, pos, rowsLen, trxRows, inflight, loadErr,
                 prevRun, stage, issued>>

\* The transaction an insert was issued on can still take it: processCSV is
\* still on that table and the transaction has not been committed or rolled
\* back.  On a completed transaction the query is refused.
trxTakes(h) == pc = h.table /\ trx \in {"open", "resolved", "rejected"}

\* The oldest batch insert in flight completes (the transaction's queries
\* run one at a time, in the order issued).  It succeeds, adding its rows
\* inside the transaction, or fails and .catch(reject) runs; the 'end'
\* handler then runs on to resolve().
batchInsertDone ==
  /\ inflight # <<>>
  /\ LET h == Head(inflight) IN
     \E ok \in BOOLEAN :
       /\ ok => trxTakes(h)
       /\ inflight' = Tail(inflight)
       /\ trxRows' = IF ok THEN trxRows + h.n ELSE trxRows
       /\ trx' = IF ~trxTakes(h) THEN trx
                 ELSE LET caught == IF ok THEN trx ELSE reject(trx)
                      IN  IF h.final THEN resolve(caught) ELSE caught
       /\ faulted' = (faulted \/ (trxTakes(h) /\ ~ok))
       /\ insertFailed' = IF trxTakes(h) /\ ~ok
                          THEN insertFailed \cup {h.table} ELSE insertFailed
  /\ UNCHANGED <<guardResult, envVars, store, store0, created, run, pc,
                 setupTask, pos, rowsLen, ended, loadErr, prevRun, stage,
                 issued>>

\* Rows of table t once the load transaction is committed.
commit(t) == store[t].rows + trxRows

\* db.transaction settles: a resolved promise commits the rows inserted
\* inside the transaction, a rejected one rolls them back and the catch
\* block of processCSV logs the error and returns normally.  processDataDump
\* goes on to the next processCSV, or to db.destroy() and returns.
trxEnd ==
  /\ pc \in Datasets
  /\ trx \in {"resolved", "rejected"}
  /\ IF trx = "resolved"
     THEN /\ store' = [store EXCEPT ![pc] = Table(commit(pc))]
          /\ UNCHANGED loadErr
     ELSE /\ loadErr' = loadErr \cup {pc}
          /\ UNCHANGED store
  /\ IF pc = "customers"
     THEN /\ pc' = "organizations"
          /\ trx' = "open"
     ELSE /\ pc' = "returned"
          /\ trx' = "none"
  /\ pos' = 0 /\ rowsLen' = 0 /\ ended' = FALSE /\ trxRows' = 0
  /\ UNCHANGED <<insertFailed, guardResult, envVars, store0, created, run,
                 setupTask, inflight, faulted, prevRun, stage, issued>>

\* The caller invokes processDataDump again on the same input, once the
\* previous invocation has ended and its asynchronous work has drained.
startRun ==
  /\ pc \in Ended
  /\ run < MaxRuns
  /\ Quiescent
  /\ run' = run + 1
  /\ pc' = "downloadFile"
  /\ store0' = store
  /\ created' = {}
  /\ setupTask' = [t \in Datasets |-> "idle"]
  /\ insertFailed' = {}
  /\ loadErr' = {}
  /\ faulted' = FALSE
  /\ guardResult' = "none"
  /\ stage' = [s \in Stages |-> "none"]
  /\ issued' = [t \in Datasets |-> <<>>]
  /\ prevRun' = [loadErr |-> loadErr # {},
                 aborted |-> pc = "failed" /\ created # {},
                 created |-> created,
                 store0 |-> store0]
  /\ UNCHANGED <<envVars, store, loaderVars, inflight>>

Next ==
  \/ downloadFile
  \/ decompressAndExtract
  \/ inferColumnTypes
  \/ guardStep
  \/ \E t \in Datasets : setupDatabase(t)
  \/ awaitSetup
  \/ onData
  \/ onEnd
  \/ onError
  \/ batchInsertDone
  \/ trxEnd
  \/ startRun

Spec == Init /\ [][Next]_vars

TypeOK ==
  /\ pc \in {"downloadFile", "decompressAndExtract", "inferColumnTypes",
             "checkAndVerifyTables", "setupDatabase"} \cup Datasets \cup Ended
  /\ trx \in {"none", "open", "resolved", "rejected"}
  /\ rowsLen \in 0..(batchSize - 1)
  /\ pos \in 0..MaxRows
  /\ run \in 1..MaxRuns
  /\ guardResult \in {"none", "true", "false", "throws"}

\* ------------------------------------------------------------ properties
\* processCSV has finished for table t in the current run.
processCSVFinished(t) ==
  /\ \A u \in Datasets : setupTask[u] = "done"
  /\ \/ pc = "returned"
     \/ t = "customers" /\ pc = "organizations"

\* Every table of store s exists and holds its source file's row count.
AllLoaded(s) == \A t \in Datasets : s[t] = Table(csvRows[t])

\* The run has ended and nothing it started is still running.
RunOver == pc \in Ended /\ Quiescent

\* C1: when processCSV finishes, the table has gained since the start of
\* the run either all rows of the source file or none.
C1_LoadAllOrNothing ==
  \A t \in Datasets :
    processCSVFinished(t) =>
      store[t].rows - store0[t].rows \in {0, csvRows[t]}

\* C2: when processDataDump returns successfully having run the load of a
\* dataset, the table's row count equals the source file's row count.
C2_ReturnedMeansLoaded ==
  \A t \in Datasets :
    (pc = "returned" /\ processCSVFinished(t)) =>
      store[t].rows = csvRows[t]

\* C3: once a batch insert has failed, the run never reports success and
\* the load of the next dataset is not started.
C3_LoadErrorEndsRun ==
  /\ insertFailed # {} => pc # "returned"
  /\ "customers" \in insertFailed => pc # "organizations"

\* C4: when both tables exist with the row counts of their source files,
\* the guard reports skip and the run ends successfully.
C4_EqualCountsSkip ==
  (guardResult # "none" /\ AllLoaded(store0)) =>
    /\ guardResult = "true"
    /\ pc \in Ended => pc = "returned"

\* C5: when a table exists with a row count different from its source
\* file's, the run does not end in skip or success but fails, and it writes
\* nothing: no table is created and no row is inserted.
C5_DifferingCountsFail ==
  (/\ guardResult # "none"
   /\ \E t \in Datasets : store0[t].exists /\ store0[t].rows # csvRows[t]) =>
    /\ pc \in Ended => pc = "failed"
    /\ store = store0
    /\ created = {}

\* C6: a run that starts with every dataset completely loaded leaves the
\* store as it found it: no table is created and no row count changes.
C6_RerunLeavesStore ==
  AllLoaded(store0) => (store = store0 /\ created = {})

\* C6 witness: the second run has ended, after a first run that created and
\* completely loaded both tables.
C6_Witness ==
  /\ run = 2
  /\ prevRun.created = Datasets
  /\ AllLoaded(store0)
  /\ guardResult # "none"
  /\ RunOver

\* C7: a table that existed when the run started keeps its rows and gets
\* no DDL, whichever tables existed at the start.
C7_ExistingTablesUntouched ==
  \A t \in Datasets :
    store0[t].exists => (store[t] = store0[t] /\ t \notin created)

\* C7 witness: a run that found only one of the two tables has ended, its
\* setupDatabase call on the existing table having failed.
C7_Witness ==
  /\ \E t \in Datasets :
       /\ store0[t].exists
       /\ ~store0[Other(t)].exists
       /\ setupTask[t] = "failed"
       /\ store0[t].rows > 0
  /\ RunOver

\* A table of store s is absent or holds exactly its source's row count.
Consistent(s, t) == s[t] = Absent \/ s[t] = Table(csvRows[t])

\* C8: a dataset whose table is absent when the guard runs is provisioned
\* and loaded to its full row count by a run without faults, also when the
\* other dataset's table exists and is completely loaded.
C8_AbsentTableLoaded ==
  \A t \in Datasets :
    (/\ RunOver
     /\ guardResult # "none"
     /\ ~faulted
     /\ ~store0[t].exists
     /\ Consistent(store0, Other(t))) =>
      store[t] = Table(csvRows[t])

\* C9: after a run in which a batch insert of a dataset failed, the
\* dataset's table is as it was before the run: existence and rows.
C9_LoadErrorRestoresStore ==
  \A t \in Datasets :
    (RunOver /\ t \in insertFailed) => store[t] = store0[t]

\* C10: a run without faults that follows a run with a load error, or one
\* that aborted after provisioning, ends with every table holding exactly
\* its source file's row count (the earlier run having started from tables
\* that were absent or completely loaded).
C10_RerunCompletes ==
  (/\ run > 1
   /\ prevRun.loadErr \/ prevRun.aborted
   /\ \A t \in Datasets : Consistent(prevRun.store0, t)
   /\ RunOver
   /\ guardResult # "none"
   /\ ~faulted) =>
    AllLoaded(store)

\* Batch inserts of the table being loaded that are in flight.
inFlightInserts == {i \in DOMAIN inflight : inflight[i].table = pc}

\* C11: backpressure in the batch loader: while a batch insert is in flight
\* no further row is taken from the source stream, so at most one batch
\* insert of the load is in flight at any time.
C11_Backpressure ==
  pc \in Datasets => Cardinality(inFlightInserts) <= 1

\* The batches a source of n rows is to be loaded in: floor(n / batchSize)
\* batches of batchSize rows, then one of the n mod batchSize rows left, in
\* source order.
ExpectedBatches(n) ==
  [k \in 1..((n + batchSize - 1) \div batchSize) |->
     Rows((k - 1) * batchSize + 1,
          IF k * batchSize <= n THEN k * batchSize ELSE n)]

\* processCSV has issued, for table t, exactly the batches specified.
BatchesAsSpecified(t) == issued[t] = ExpectedBatches(csvRows[t])

\* C12: a source of n rows is loaded by floor(n/b) inserts of exactly b rows
\* followed, when n mod b > 0, by one insert of n mod b rows; the batches
\* follow source order, every row is in exactly one batch, and the committed
\* row count is n.
C12_Batching ==
  \A t \in Datasets :
    (processCSVFinished(t) /\ t \in created /\ ~faulted) =>
      /\ BatchesAsSpecified(t)
      /\ store[t].rows = csvRows[t]

\* processCSV has been started for table t in the current run.
loadStarted(t) ==
  \/ pc = t
  \/ issued[t] # <<>>
  \/ t = "customers" /\ pc = "organizations"

\* C13: stage ordering: fetch completes before extract starts, extract
\* before type inference, inference before the guard, the guard before
\* provisioning, and provisioning before loading; a stage starts only if
\* its predecessor succeeded, so a failed fetch or extraction leaves no
\* destination table created.
C13_StageOrdering ==
  /\ stage["decompressAndExtract"] # "none" => stage["downloadFile"] = "ok"
  /\ stage["inferColumnTypes"] # "none" =>
       stage["decompressAndExtract"] = "ok"
  /\ guardResult # "none" => stage["inferColumnTypes"] = "ok"
  /\ \A t \in Datasets :
       /\ setupTask[t] # "idle" => guardResult = "false"
       /\ loadStarted(t) => setupTask[t] = "done"
  /\ (\E s \in {"downloadFile", "decompressAndExtract"} :
        stage[s] = "failed") =>
       created = {} /\ store = store0

\* Extraction failed after a successful fetch, on a store with no table.
C13_Witness ==
  /\ stage["downloadFile"] = "ok"
  /\ stage["decompressAndExtract"] = "failed"
  /\ pc = "failed"
  /\ \A t \in Datasets : store[t] = Absent

\* Type inference has been run on the source of table t, which has a header
\* and no data row.
inferredEmpty(t) == stage["inferColumnTypes"] # "none" /\ csvRows[t] = 0

\* C14: type inference on a file with a header and no data rows ends with a
\* failure delivered to the caller (the promise is rejected, which
\* processDataDump rethrows): it neither returns a schema nor leaves the
\* caller waiting forever.
C14_EmptyInferenceRejects ==
  (\E t \in Datasets : inferredEmpty(t)) => pc = "failed"

\* C15: an inference failure for one dataset fails only that dataset: the
\* sibling dataset, whose source has rows and whose table is absent, is
\* still inferred, guard-checked, provisioned and loaded to its full row
\* count in the same run.
C15_SiblingStillLoaded ==
  \A t \in Datasets :
    (/\ RunOver
     /\ inferredEmpty(t)
     /\ csvRows[Other(t)] > 0
     /\ store0[Other(t)] = Absent
     /\ ~faulted) =>
      store[Other(t)] = Table(csvRows[Other(t)])

\* ================================================================ helpers
\* The helpers of the pipeline, each called on inputs of its own.  A string
\* is the sequence of its characters.

\* No run of processDataDump takes place.
PipelineIdle ==
  /\ csvRows = [t \in Datasets |-> 0]
  /\ store = [t \in Datasets |-> Absent]
  /\ store0 = store
  /\ created = {}
  /\ run = 1
  /\ pc = None
  /\ guardResult = None
  /\ setupTask = [t \in Datasets |-> "idle"]
  /\ pos = 0 /\ rowsLen = 0 /\ ended = FALSE
  /\ trx = None /\ trxRows = 0
  /\ inflight = <<>>
  /\ insertFailed = {} /\ loadErr = {} /\ faulted = FALSE
  /\ stage = [s \in Stages |-> None]
  /\ issued = [t \in Datasets |-> <<>>]
  /\ prevRun = NoRun

\* ---------------------------------------------------------------- inferType
Digit == {"0", "1", "2", "3", "4", "5", "6", "7", "8", "9"}

DigitValue(c) ==
  CASE c = "0" -> 0 [] c = "1" -> 1 [] c = "2" -> 2 [] c = "3" -> 3
    [] c = "4" -> 4 [] c = "5" -> 5 [] c = "6" -> 6 [] c = "7" -> 7
    [] c = "8" -> 8 [] c = "9" -> 9

\* /^\d+$/.test(s)
IsDigits(s) == s # <<>> /\ \A i \in DOMAIN s : s[i] \in Digit

\* /^\d+\.\d+$/.test(s)
IsDecimal(s) ==
  \E i \in DOMAIN s :
    /\ s[i] = "."
    /\ IsDigits(SubSeq(s, 1, i - 1))
    /\ IsDigits(SubSeq(s, i + 1, Len(s)))

\* parseInt(s, 10) of an all-digit string, as the decimal numeral of its
\* value: the digits without leading zeros.
RECURSIVE parseInt(_)
parseInt(s) == IF Len(s) > 1 /\ s[1] = "0" THEN parseInt(Tail(s)) ELSE s

\* a <= b, for the numerals a and b of two natural numbers.  (A double
\* holds every integer up to 2^53; beyond, rounding does not move a value
\* across 2147483647.)
NumLeq(a, b) ==
  \/ Len(a) < Len(b)
  \/ /\ Len(a) = Len(b)
     /\ \/ a = b
        \/ \E i \in DOMAIN a :
             /\ DigitValue(a[i]) < DigitValue(b[i])
             /\ \A j \in 1..(i - 1) : a[j] = b[j]

\* 2147483647
Int32Max == <<"2", "1", "4", "7", "4", "8", "3", "6", "4", "7">>

\* The number written by the digits s[i..j].
RECURSIVE Number(_, _, _)
Number(s, i, j) ==
  IF j < i THEN 0 ELSE 10 * Number(s, i, j - 1) + DigitValue(s[j])

IsLeapYear(y) == y % 4 = 0 /\ (y % 100 # 0 \/ y % 400 = 0)

DaysInMonth(y, m) ==
  IF m = 2 THEN (IF IsLeapYear(y) THEN 29 ELSE 28)
  ELSE IF m \in {4, 6, 9, 11} THEN 30 ELSE 31

\* s is a date in the ISO format YYYY-MM-DD, the one form of date whose
\* parse ECMAScript fixes: midnight UTC of that day.
IsISODate(s) ==
  /\ Len(s) = 10
  /\ s[5] = "-" /\ s[8] = "-"
  /\ \A i \in {1, 2, 3, 4, 6, 7, 9, 10} : s[i] \in Digit
  /\ Number(s, 6, 7) \in 1..12
  /\ Number(s, 9, 10) \in 1..DaysInMonth(Number(s, 1, 4), Number(s, 6, 7))

\* Days from 1970-01-01 to the day d of month m of year y.
EpochDays(y, m, d) ==
  LET yy == IF m <= 2 THEN y - 1 ELSE y
      era == yy \div 400
      yoe == yy - era * 400
      mp == IF m > 2 THEN m - 3 ELSE m + 9
      doy == (153 * mp + 2) \div 5 + d - 1
      doe == yoe * 365 + yoe \div 4 - yoe \div 100 + doy
  IN  era * 146097 + doe - 719468

\* Date.parse(v): the time value, counted here in days (a date-only ISO
\* string is midnight UTC, so its time value is 0 exactly for 1970-01-01);
\* for any other string the result is the implementation's.
DateParse(v) ==
  IF IsISODate(v.text)
  THEN Time(EpochDays(Number(v.text, 1, 4), Number(v.text, 6, 7),
                      Number(v.text, 9, 10)))
  ELSE v.legacy

\* if (x): NaN and 0 are falsy, every other number is truthy.
Truthy(x) == ~x.nan /\ x.time # 0

\* const inferType = (value: string): InferredType => ...
inferType(v) ==
  IF IsDigits(v.text)
  THEN IF NumLeq(parseInt(v.text), Int32Max) THEN "int" ELSE "bigint"
  ELSE IF IsDecimal(v.text) THEN "float"
  ELSE IF Truthy(DateParse(v)) THEN "date"
  ELSE "string"

\* ------------------------------------------------------------------ inputs
\* Longest string built from Alphabet.
MaxLen == 3
\* Most data rows of a file given to inferColumnTypes.
MaxFileRows == 3
\* Largest sampleSize argument.
MaxSample == 3

Alphabet == {"7", ".", "a"}

\* Strings at the boundaries of the rules of inferType.
BoundaryTexts ==
  { Int32Max,
    <<"2", "1", "4", "7", "4", "8", "3", "6", "4", "8">>,
    <<"0", "0", "7">>,
    <<"3", ".", "1", "4">>,
    <<"2", "0", "2", "4", "-", "0", "1", "-", "0", "1">>,
    <<"1", "9", "7", "0", "-", "0", "1", "-", "0", "1">>,
    <<"2", "0", "2", "4", "-", "1", "3", "-", "0", "1">>,
    <<"a", "b", "c", "1", "2", "3">> }

Texts == BoundaryTexts \cup UNION {[1..n -> Alphabet] : n \in 0..MaxLen}

\* What an implementation's fallback parser may give for a string of Texts
\* that is not an ISO date: no date at all, or some day, which is never
\* 1970-01-01 since none of these strings names it.
LegacyResults == {NaN, Time(1)}

Values == {Value(t, l) : t \in Texts, l \in LegacyResults}

\* Cell values of the files given to inferColumnTypes: an integer, a date,
\* a word.
Cells ==
  { Value(<<"7">>, NaN),
    Value(<<"2", "0", "2", "4", "-", "0", "1", "-", "0", "1">>, NaN),
    Value(<<"a">>, NaN) }

Headers == {<<"name">>, <<"id", "name">>}

Range(f) == {f[i] : i \in DOMAIN f}

\* A parsed row: an object with one property per header.
RowsOf(h) == [Range(h) -> Cells]

Files ==
  UNION {{[headers |-> h, rows |-> r] :
            r \in UNION {[1..n -> RowsOf(h)] : n \in 0..MaxFileRows}} :
         h \in Headers}

InferredTypeNames == {"int", "bigint", "float", "date", "string"}

Names == {"id", "name", "signup_date"}

\* Header lists without a repeated name.
HeaderLists ==
  {h \in UNION {[1..n -> Names] : n \in 1..Cardinality(Names)} :
     \A i, j \in DOMAIN h : h[i] = h[j] => i = j}

\* Object.entries(inferredTypes) of the InferredSchema records.
Schemas ==
  UNION {{[i \in DOMAIN h |-> [header |-> h[i], type |-> ty[i]]] :
            ty \in [DOMAIN h -> InferredTypeNames]} :
         h \in HeaderLists}

\* ------------------------------------------------------------ helper calls
InitInferType ==
  /\ task = "inferType"
  /\ value \in Values
  /\ file = [headers |-> <<>>, rows |-> <<>>]
  /\ sampleSize = 0
  /\ schema = <<>>

InitInferColumnTypes ==
  /\ task = "inferColumnTypes"
  /\ value = Value(<<>>, NaN)
  /\ file \in Files
  /\ sampleSize \in 1..MaxSample
  /\ schema = <<>>

InitSetupDatabase ==
  /\ task = "setupDatabase"
  /\ value = Value(<<>>, NaN)
  /\ file = [headers |-> <<>>, rows |-> <<>>]
  /\ sampleSize = 0
  /\ schema \in Schemas

InitHelpers ==
  /\ PipelineIdle
  /\ CartIdle
  /\ ScraperIdle
  /\ InitInferType \/ InitInferColumnTypes \/ InitSetupDatabase
  /\ outcome = None
  /\ result = None
  /\ rowsRead = 0
  /\ sampleRows = <<>>
  /\ inferredTypes = EmptyRecord
  /\ table = <<>>

\* inferType(value) is called and returns.
callInferType ==
  /\ task = "inferType"
  /\ outcome = None
  /\ result' = inferType(value)
  /\ outcome' = "returned"
  /\ UNCHANGED <<pipelineVars, cartVars, scraperVars,
                 task, value, file, sampleSize,
                 rowsRead, sampleRows, inferredTypes, schema, table>>

\* .on('data', (row) => {
\*    if (sampleRows.length < sampleSize) sampleRows.push(row); })
sampleOnData ==
  /\ task = "inferColumnTypes"
  /\ outcome = None
  /\ rowsRead < Len(file.rows)
  /\ rowsRead' = rowsRead + 1
  /\ sampleRows' = IF Len(sampleRows) < sampleSize
                   THEN Append(sampleRows, file.rows[rowsRead + 1])
                   ELSE sampleRows
  /\ UNCHANGED <<pipelineVars, cartVars, scraperVars,
                 task, outcome, value, result, file,
                 sampleSize, inferredTypes, schema, table>>

\* new Set(a): the distinct elements of a, in the order of their first
\* occurrence.
RECURSIVE NewSet(_)
NewSet(a) ==
  IF a = <<>> THEN <<>>
  ELSE LET front == NewSet(SubSeq(a, 1, Len(a) - 1))
           x == a[Len(a)]
       IN  IF \E i \in DOMAIN front : front[i] = x THEN front
           ELSE Append(front, x)

\* Variant of firstOf: the element a Set yields last.
lastOf(types) == types[Len(types)]

\* Array.from(types)[0]
firstOf(types) == types[1]

\* .on('end', () => { const headers = Object.keys(sampleRows[0]); ...
\*    resolve(inferredTypes); })
\* With no sampled row Object.keys(undefined) throws inside the listener.
sampleOnEnd ==
  /\ task = "inferColumnTypes"
  /\ outcome = None
  /\ rowsRead = Len(file.rows)
  /\ IF sampleRows = <<>>
     THEN /\ outcome' = "threw"
          /\ UNCHANGED inferredTypes
     ELSE /\ outcome' = "resolved"
          /\ inferredTypes' =
               [header \in DOMAIN sampleRows[1] |->
                  LET sampleValues ==
                        [i \in DOMAIN sampleRows |-> sampleRows[i][header]]
                      types ==
                        NewSet([i \in DOMAIN sampleValues |->
                                  inferType(sampleValues[i])])
                  IN  firstOf(types)]
  /\ UNCHANGED <<pipelineVars, cartVars, scraperVars,
                 task, value, result, file,
                 sampleSize, rowsRead, sampleRows, schema, table>>

\* .on('error', reject): the file cannot be read to its end.
sampleOnError ==
  /\ task = "inferColumnTypes"
  /\ outcome = None
  /\ outcome' = "rejected"
  /\ UNCHANGED <<pipelineVars, cartVars, scraperVars,
                 task, value, result, file,
                 sampleSize, rowsRead, sampleRows, inferredTypes, schema,
                 table>>

\* The column method setupDatabase calls for an inferred type.
columnType(type) ==
  CASE type = "int" -> "integer"
    [] type = "bigint" -> "bigInteger"
    [] type = "float" -> "float"
    [] type = "date" -> "dateTime"
    [] OTHER -> "string"

Column(name, type) == [name |-> name, type |-> type]

\* The columns the callback of createTable declares: table.increments('id')
\* and then one column for each entry of inferredTypes.
tableBuilder(entries) ==
  <<Column("id", "increments")>> \o
    [i \in DOMAIN entries |->
       Column(entries[i].header, columnType(entries[i].type))]

\* SQLite refuses a CREATE TABLE that names a column twice.
duplicateColumn(columns) ==
  \E i, j \in DOMAIN columns : i < j /\ columns[i].name = columns[j].name

\* await db.schema.createTable(tableName, ...) of setupDatabase.
createTable ==
  /\ task = "setupDatabase"
  /\ outcome = None
  /\ IF table # <<>> \/ duplicateColumn(tableBuilder(schema))
     THEN /\ outcome' = "rejected"
          /\ UNCHANGED table
     ELSE /\ outcome' = "resolved"
          /\ table' = tableBuilder(schema)
  /\ UNCHANGED <<pipelineVars, cartVars, scraperVars,
                 task, value, result, file,
                 sampleSize, rowsRead, sampleRows, inferredTypes, schema>>

NextHelpers ==
  \/ callInferType
  \/ sampleOnData
  \/ sampleOnEnd
  \/ sampleOnError
  \/ createTable

SpecHelpers == InitHelpers /\ [][NextHelpers]_vars

\* The classifier of the ordered rules: all digits is an integer, of 32 bits
\* when its value is at most 2147483647 and of 64 otherwise; digits, a dot,
\* digits is a float; a string that parses as a date is a date, whatever
\* instant it parses to; anything else is a string.
Classify(v) ==
  IF IsDigits(v.text)
  THEN IF NumLeq(parseInt(v.text), Int32Max) THEN "int" ELSE "bigint"
  ELSE IF IsDecimal(v.text) THEN "float"
  ELSE IF ~DateParse(v).nan THEN "date"
  ELSE "string"

\* C16: inferType equals the classifier of the ordered rules for every
\* value: integers by the 32-bit bound, then floats, then every value that
\* parses as a date (the epoch, parse result 0, included), else string.
C16_InferTypeIsClassifier ==
  (task = "inferType" /\ outcome = "returned") => result = Classify(value)

\* The first min(n, row count) rows of file f.
FirstRows(f, n) ==
  SubSeq(f.rows, 1, IF n < Len(f.rows) THEN n ELSE Len(f.rows))

\* C17: for every column and every sample of 1..N rows the type that
\* inferColumnTypes assigns to the column is the classification of the
\* column's value in the first sampled row, whatever the later rows hold;
\* the sample is the first min(N, row count) rows of the file.
C17_FirstRowDecides ==
  (task = "inferColumnTypes" /\ outcome = "resolved") =>
    /\ sampleRows = FirstRows(file, sampleSize)
    /\ DOMAIN inferredTypes = Range(file.headers)
    /\ \A header \in Range(file.headers) :
         inferredTypes[header] = inferType(file.rows[1][header])

\* A column sampled over three rows whose first value is an integer and
\* whose later values are both words has been given the type int.
C17_Witness ==
  /\ task = "inferColumnTypes"
  /\ outcome = "resolved"
  /\ Len(sampleRows) = 3
  /\ inferType(sampleRows[1]["name"]) = "int"
  /\ inferType(sampleRows[2]["name"]) = "string"
  /\ inferType(sampleRows[3]["name"]) = "string"
  /\ inferredTypes["name"] = "int"

\* C18: for every schema of k columns and an absent table, setupDatabase
\* succeeds and the table has exactly k + 1 columns: the auto-increment key
\* and one column per inferred field with the storage type of the mapping;
\* this includes a schema with a column named id.
C18_KeyPlusOnePerField ==
  (task = "setupDatabase" /\ outcome # None) =>
    /\ outcome = "resolved"
    /\ Len(table) = Len(schema) + 1
    /\ table[1] = Column("id", "increments")
    /\ \A i \in DOMAIN schema :
         table[i + 1] = Column(schema[i].header, columnType(schema[i].type))

\* =================================================================== cart
\* The domain cart of challenge-3 (the Challenge component).  A DomainInfo
\* object is shared by every array that holds it: the cart, the carts saved
\* for undo and redo, and the carts captured by availability checks.

LowerLetters ==
  <<"a", "b", "c", "d", "e", "f", "g", "h", "i", "j", "k", "l", "m",
    "n", "o", "p", "q", "r", "s", "t", "u", "v", "w", "x", "y", "z">>

UpperLetters ==
  <<"A", "B", "C", "D", "E", "F", "G", "H", "I", "J", "K", "L", "M",
    "N", "O", "P", "Q", "R", "S", "T", "U", "V", "W", "X", "Y", "Z">>

IndexIn(letters, c) == CHOOSE i \in DOMAIN letters : letters[i] = c

\* One character of String.prototype.toLowerCase.
Lower(c) ==
  IF c \in Range(UpperLetters) THEN LowerLetters[IndexIn(UpperLetters, c)]
  ELSE c

\* s.toLowerCase()
toLowerCase(s) == [i \in DOMAIN s |-> Lower(s[i])]

\* The character code of c, for the characters of the inputs used.
CharCode(c) ==
  IF c \in Range(LowerLetters) THEN 96 + IndexIn(LowerLetters, c)
  ELSE IF c \in Range(UpperLetters) THEN 64 + IndexIn(UpperLetters, c)
  ELSE IF c \in Digit THEN 48 + DigitValue(c)
  ELSE CASE c = "-" -> 45 [] c = "." -> 46 [] c = "/" -> 47 [] c = ":" -> 58

\* [a-zA-Z0-9-]
LabelChars ==
  Range(LowerLetters) \cup Range(UpperLetters) \cup Digit \cup {"-"}

\* (com|xyz|app)
Endings == {<<"c", "o", "m">>, <<"x", "y", "z">>, <<"a", "p", "p">>}

\* s begins with the string prefix.
StartsWith(s, prefix) ==
  Len(s) >= Len(prefix) /\ SubSeq(s, 1, Len(prefix)) = prefix

\* /^(?!:\/\/)([a-zA-Z0-9-]+)\.(com|xyz|app)$/.test(domain)
isValidDomain(domain) ==
  /\ ~StartsWith(domain, <<":", "/", "/">>)
  /\ \E i \in DOMAIN domain :
       /\ i > 1
       /\ \A j \in 1..(i - 1) : domain[j] \in LabelChars
       /\ domain[i] = "."
       /\ SubSeq(domain, i + 1, Len(domain)) \in Endings

\* isDomainAvailable(domain), which the API route answers with:
\* domain.toLowerCase().charCodeAt(0) % 2 === 0; charCodeAt(0) of the empty
\* string is NaN and the comparison is false.
isDomainAvailable(domain) ==
  domain # <<>> /\ CharCode(toLowerCase(domain)[1]) % 2 = 0

\* Position of the first "." of s, Len(s) + 1 when it has none.
FirstDot(s) ==
  IF \E i \in DOMAIN s : s[i] = "."
  THEN CHOOSE i \in DOMAIN s :
         s[i] = "." /\ \A j \in 1..(i - 1) : s[j] # "."
  ELSE Len(s) + 1

\* name.split('.')[0]
SplitFirst(s) == SubSeq(s, 1, FirstDot(s) - 1)

\* name.split('.')[1]; the empty set stands for undefined.
SplitSecond(s) ==
  IF FirstDot(s) > Len(s) THEN {}
  ELSE LET rest == SubSeq(s, FirstDot(s) + 1, Len(s))
       IN  {SubSeq(rest, 1, FirstDot(rest) - 1)}

\* ------------------------------------------------------------ cart bounds
\* Most DomainInfo objects created in one behaviour.
MaxObjects == 2
\* Most carts saved for undo and redo together.
MaxHistory == 3
\* Most availability requests in flight at a time.
MaxChecks == 2

\* export function Challenge({ maxDomains }: ChallengeProps)
maxDomains == 1

Txt_a_com == <<"a", ".", "c", "o", "m">>

Txt_b_xyz == <<"b", ".", "x", "y", "z">>

\* Texts typed into the input field: a lower case domain, two in mixed
\* case, a URL with a scheme, one with a path, another ending.
DomainInputs ==
  { Txt_a_com,
    <<"B", ".", "x", "y", "z">>,
    <<"b", ".", "X", "y", "z">>,
    <<"h", "t", "t", "p", "s", ":", "/", "/", "a", ".", "c", "o", "m">>,
    <<"a", ".", "c", "o", "m", "/", "a">>,
    <<"a", ".", "o", "r", "g">> }

\* Texts typed over the name of an entry of the cart.
EditNames == {Txt_a_com}

\* const newDomain = { name: ..., isLoading: false }; available is undefined.
DomainInfo(name) ==
  [name |-> name, available |-> "undefined", isLoading |-> FALSE]

\* cart.map(d => d.name), for a cart c over the objects objs.
NamesOf(objs, c) == [i \in DOMAIN c |-> objs[c[i]].name]

\* array.filter(keep), keep being a set of indexes of the array.
RECURSIVE Filter(_, _)
Filter(a, keep) ==
  IF a = <<>> THEN <<>>
  ELSE LET front == Filter(SubSeq(a, 1, Len(a) - 1), keep)
       IN  IF Len(a) \in keep THEN Append(front, a[Len(a)]) ELSE front

\* The effect that counts the cart: availableDomains, unavailableDomains.
availableDomains ==
  Cardinality({i \in DOMAIN cart : objects[cart[i]].available = "true"})

unavailableDomains ==
  Cardinality({i \in DOMAIN cart : objects[cart[i]].available = "false"})

isPurchaseDisabled ==
  availableDomains # maxDomains \/ unavailableDomains > 0

\* ----------------------------------------------------------- checkDomains
\* The entries of cart c the effect starts a check for.
NeedsCheck(objs, c) ==
  {i \in DOMAIN c :
     objs[c[i]].available = "undefined" /\ ~objs[c[i]].isLoading}

\* updatedCart[index].isLoading = true, for each of them.
Loading(objs, c) ==
  [o \in DOMAIN objs |->
     IF \E i \in NeedsCheck(objs, c) : c[i] = o
     THEN [objs[o] EXCEPT !.isLoading = TRUE] ELSE objs[o]]

\* fetch(`/api/checkDomain?domain=${domain.name}`): the request keeps the
\* index, the cart array of the render it was started in, and the name.
Requests(objs, c) ==
  {[index |-> i, cart |-> c, domain |-> objs[c[i]].name] :
     i \in NeedsCheck(objs, c)}

\* JSON.stringify(cart): the entries by value; an available that is
\* undefined is left out of the text and reads back as undefined.
JSONstringify(objs, c) == [i \in DOMAIN c |-> objs[c[i]]]

\* JSON.parse(storedCart): an array of new objects.
JSONparse(text) == [objects |-> text, cart |-> [i \in DOMAIN text |-> i]]

\* setCart(c) with the objects as in objs, the render that follows and its
\* effects, checkDomains and the save to local storage; pending are the
\* requests already in flight.
setCart(objs, c, pending) ==
  /\ cart' = c
  /\ objects' = Loading(objs, c)
  /\ localStorage' = JSONstringify(Loading(objs, c), c)
  /\ checks' = pending \cup Requests(objs, c)
  /\ Cardinality(checks') <= MaxChecks

\* --------------------------------------------------------------- handlers
\* There is room to save one more cart for undo or redo.
HistoryRoom == Len(cartHistory) + Len(redoStack) < MaxHistory

\* The variables no handler of the mounted component changes.
otherVars == <<pipelineVars, helperVars, scraperVars, mounted>>

InitCart ==
  /\ PipelineIdle
  /\ HelpersIdle
  /\ CartIdle
  /\ ScraperIdle

\* onChange={(e) => setDomainInput(e.target.value)}
setDomainInput ==
  /\ mounted
  /\ ~isOpen
  /\ \E text \in DomainInputs :
       /\ text # domainInput
       /\ domainInput' = text
  /\ UNCHANGED <<objects, cart, cartHistory, redoStack, checks, isOpen, toast,
                 localStorage, otherVars>>

\* addActionToHistory(currentCart):
\*   setCartHistory([...cartHistory, [...currentCart]])
addActionToHistory(currentCart) ==
  cartHistory' = Append(cartHistory, currentCart)

addDomainToCart ==
  /\ mounted
  /\ ~isOpen
  /\ IF isValidDomain(domainInput)
     THEN LET newDomain == DomainInfo(toLowerCase(domainInput)) IN
          IF \A i \in DOMAIN cart : objects[cart[i]].name # newDomain.name
          THEN /\ Len(objects) < MaxObjects
               /\ HistoryRoom
               /\ setCart(Append(objects, newDomain),
                          Append(cart, Len(objects) + 1), checks)
               /\ addActionToHistory(cart)
               /\ UNCHANGED toast
          ELSE UNCHANGED <<objects, cart, checks, cartHistory, toast,
                           localStorage>>
     ELSE /\ toast' = "Invalid Domain"
          /\ UNCHANGED <<objects, cart, checks, cartHistory, localStorage>>
  /\ UNCHANGED <<redoStack, isOpen, domainInput, otherVars>>

\* removeDomainFromCart(d.name), from the delete button of an entry.
removeDomainFromCart ==
  /\ mounted
  /\ ~isOpen
  /\ \E k \in DOMAIN cart :
       LET domain == objects[cart[k]].name IN
       setCart(objects,
               Filter(cart, {i \in DOMAIN cart :
                               objects[cart[i]].name # domain}),
               checks)
  /\ UNCHANGED <<cartHistory, redoStack, isOpen, domainInput, toast,
                 otherVars>>

clearCart ==
  /\ mounted
  /\ ~isOpen
  /\ HistoryRoom
  /\ addActionToHistory(cart)
  /\ setCart(objects, <<>>, checks)
  /\ UNCHANGED <<redoStack, isOpen, domainInput, toast, otherVars>>

\* setCart(cart.filter(d => d.available)); addActionToHistory(cart)
removeUnavailableDomains ==
  /\ mounted
  /\ ~isOpen
  /\ HistoryRoom
  /\ setCart(objects,
             Filter(cart, {i \in DOMAIN cart :
                             objects[cart[i]].available = "true"}),
             checks)
  /\ addActionToHistory(cart)
  /\ UNCHANGED <<redoStack, isOpen, domainInput, toast, otherVars>>

handlePurchase ==
  /\ mounted
  /\ ~isOpen
  /\ ~isPurchaseDisabled
  /\ isOpen' = TRUE
  /\ setCart(objects, <<>>, checks)
  /\ UNCHANGED <<cartHistory, redoStack, domainInput, toast, otherVars>>

\* onClose of the purchase dialog: setIsOpen(false)
setIsOpen ==
  /\ isOpen
  /\ isOpen' = FALSE
  /\ UNCHANGED <<objects, cart, cartHistory, redoStack, checks, domainInput,
                 toast, localStorage, otherVars>>

\* const extOrder = ['.com', '.app', '.xyz'];
extOrder ==
  << <<".", "c", "o", "m">>, <<".", "a", "p", "p">>, <<".", "x", "y", "z">> >>

\* array.indexOf(x), counted from 0, x being {} for undefined.
indexOf(array, x) ==
  IF \E i \in DOMAIN array : {array[i]} = x
  THEN (CHOOSE i \in DOMAIN array :
          {array[i]} = x /\ \A j \in 1..(i - 1) : {array[j]} # x) - 1
  ELSE -1

\* The compare function of keepBestDomains, for two DomainInfo objects.
compareDomains(a, b) ==
  LET availableA == a.available = "true"
      availableB == b.available = "true"
      extA == indexOf(extOrder, SplitSecond(a.name))
      extB == indexOf(extOrder, SplitSecond(b.name))
  IN  IF availableA /\ ~availableB THEN -1
      ELSE IF ~availableA /\ availableB THEN 1
      ELSE IF extA # extB THEN extA - extB
      ELSE Len(SplitFirst(a.name)) - Len(SplitFirst(b.name))

\* [...cart].sort(compare): Array.prototype.sort is stable.
RECURSIVE sort(_, _)
sort(objs, c) ==
  IF c = <<>> THEN <<>>
  ELSE LET front == sort(objs, SubSeq(c, 1, Len(c) - 1))
           x == c[Len(c)]
           k == Cardinality({i \in DOMAIN front :
                               compareDomains(objs[front[i]], objs[x]) <= 0})
       IN  SubSeq(front, 1, k) \o <<x>> \o SubSeq(front, k + 1, Len(front))

\* array.slice(0, n)
slice(array, n) == SubSeq(array, 1, IF n < Len(array) THEN n ELSE Len(array))

keepBestDomains ==
  /\ mounted
  /\ ~isOpen
  /\ HistoryRoom
  /\ setCart(objects, slice(sort(objects, cart), maxDomains), checks)
  /\ addActionToHistory(cart)
  /\ UNCHANGED <<redoStack, isOpen, domainInput, toast, otherVars>>

\* array.slice(0, -1)
dropLast(array) == SubSeq(array, 1, Len(array) - 1)

undoLastAction ==
  /\ mounted
  /\ ~isOpen
  /\ IF Len(cartHistory) > 0
     THEN /\ setCart(objects, cartHistory[Len(cartHistory)], checks)
          /\ redoStack' = Append(redoStack, cart)
          /\ cartHistory' = dropLast(cartHistory)
     ELSE UNCHANGED <<objects, cart, checks, cartHistory, redoStack,
                      localStorage>>
  /\ UNCHANGED <<isOpen, domainInput, toast, otherVars>>

redoLastAction ==
  /\ mounted
  /\ ~isOpen
  /\ IF Len(redoStack) > 0
     THEN /\ setCart(objects, redoStack[Len(redoStack)], checks)
          /\ cartHistory' = Append(cartHistory, cart)
          /\ redoStack' = dropLast(redoStack)
     ELSE UNCHANGED <<objects, cart, checks, cartHistory, redoStack,
                      localStorage>>
  /\ UNCHANGED <<isOpen, domainInput, toast, otherVars>>

\* onChange of the name field of entry index: the object is changed in
\* place, whatever the new text is.
handleDomainNameChange ==
  /\ mounted
  /\ ~isOpen
  /\ \E index \in DOMAIN cart, newName \in EditNames :
       /\ newName # objects[cart[index]].name
       /\ setCart([objects EXCEPT ![cart[index]] = DomainInfo(newName)],
                  cart, checks)
  /\ UNCHANGED <<cartHistory, redoStack, isOpen, domainInput, toast,
                 otherVars>>

\* The response of a request arrives: the entry at the request's index of
\* the cart the request was started with gets the answer, and that cart is
\* set.
checkDomainsResponseOf(r) ==
  /\ r \in checks
  /\ LET o == r.cart[r.index]
         answered ==
           [objects EXCEPT
              ![o] = [@ EXCEPT
                        !.available = IF isDomainAvailable(r.domain)
                                      THEN "true" ELSE "false",
                        !.isLoading = FALSE]]
     IN  setCart(answered, r.cart, checks \ {r})
  /\ UNCHANGED <<cartHistory, redoStack, isOpen, domainInput, toast,
                 otherVars>>

checkDomainsResponse == \E r \in checks : checkDomainsResponseOf(r)

\* The request fails: the catch block logs the error; isLoading stays true.
checkDomainsErrorOf(r) ==
  /\ r \in checks
  /\ checks' = checks \ {r}
  /\ UNCHANGED <<objects, cart, cartHistory, redoStack, isOpen,
                 domainInput, toast, localStorage, otherVars>>

checkDomainsError == \E r \in checks : checkDomainsErrorOf(r)

\* The warning toast closes when its duration is over.
toastClosed ==
  /\ toast # None
  /\ toast' = None
  /\ UNCHANGED <<objects, cart, cartHistory, redoStack, checks, isOpen,
                 domainInput, localStorage, otherVars>>

\* The page is left: the component is unmounted and its state discarded;
\* the requests in flight belong to the discarded instance.
unmount ==
  /\ mounted
  /\ mounted' = FALSE
  /\ objects' = <<>>
  /\ cart' = <<>>
  /\ cartHistory' = <<>>
  /\ redoStack' = <<>>
  /\ checks' = {}
  /\ isOpen' = FALSE
  /\ domainInput' = <<>>
  /\ toast' = None
  /\ UNCHANGED <<localStorage, pipelineVars, helperVars, scraperVars>>

\* The component is mounted: the first render has the initial state, and
\* its effects run in the order they are declared: the save effect
\* stores the cart of that render, then the load effect reads the key and,
\* the text being non-empty, sets the cart to what it parses to.
mount ==
  /\ ~mounted
  /\ mounted' = TRUE
  /\ LET saved == JSONstringify(objects, cart)
         storedCart == saved
         parsed == JSONparse(storedCart)
     IN  setCart(parsed.objects, parsed.cart, checks)
  /\ UNCHANGED <<cartHistory, redoStack, isOpen, domainInput, toast,
                 pipelineVars, helperVars, scraperVars>>

NextCart ==
  \/ setDomainInput
  \/ addDomainToCart
  \/ removeDomainFromCart
  \/ clearCart
  \/ removeUnavailableDomains
  \/ handlePurchase
  \/ setIsOpen
  \/ keepBestDomains
  \/ undoLastAction
  \/ redoLastAction
  \/ handleDomainNameChange
  \/ checkDomainsResponse
  \/ checkDomainsError
  \/ toastClosed
  \/ unmount
  \/ mount

SpecCart == InitCart /\ [][NextCart]_vars

\* Every request the component can start: an index, the cart array of the
\* render, the name asked for.
Carts ==
  {c \in UNION {[1..n -> 1..MaxObjects] : n \in 0..MaxObjects} :
     \A i, j \in DOMAIN c : c[i] = c[j] => i = j}

AllRequests ==
  [index : 1..MaxObjects, cart : Carts,
   domain : {toLowerCase(t) : t \in {d \in DomainInputs : isValidDomain(d)}}
              \cup EditNames]

\* The request r returns, with an answer or with a failure.
checkReturns(r) == checkDomainsResponseOf(r) \/ checkDomainsErrorOf(r)

\* The cart under the assumption that every started request returns.
SpecCartFair ==
  SpecCart /\ \A r \in AllRequests : WF_vars(checkReturns(r))

\* ------------------------------------------------------- cart properties
\* C19: cart uniqueness: after any sequence of cart operations (add, delete,
\* edit of a name in place, clear, remove unavailable, keep best, undo, redo,
\* purchase) the cart never holds two entries with the same domain name.
C19_CartHasNoDuplicates ==
  \A i, j \in DOMAIN cart :
    objects[cart[i]].name = objects[cart[j]].name => i = j

\* A bare domain name ending in .com, .xyz or .app, letter case disregarded.
BareDomain(text) == isValidDomain(toLowerCase(text))

\* C20: the Add button accepts the text of the input field exactly when it
\* is a bare domain name ending in .com, .xyz or .app, compared without
\* regard to letter case, and then the cart holds the name in lower case; a
\* text with a scheme, a path or another ending is refused with the warning
\* toast and leaves the cart unchanged.
C20_AddAcceptsBareDomains ==
  [][addDomainToCart =>
       IF BareDomain(domainInput)
       THEN /\ toast' = toast
            /\ \E i \in DOMAIN cart' :
                 objects'[cart'[i]].name = toLowerCase(domainInput)
       ELSE /\ toast' = "Invalid Domain"
            /\ cart' = cart]_vars

\* C21: in every reachable state of the cart the Purchase button is shown
\* exactly when the number of domains in the cart, available, unavailable
\* and not yet checked alike, equals maxDomains.
C21_PurchaseIffCartFull ==
  ~isPurchaseDisabled <=> Len(cart) = maxDomains

\* The endings from best to worst: .com, .app, .xyz.
EndingOrder == << <<"c", "o", "m">>, <<"a", "p", "p">>, <<"x", "y", "z">> >>

EndingRank(name) == indexOf(EndingOrder, SplitSecond(name))

\* Domain a is strictly better than domain b: a better ending, or the same
\* ending and a shorter name.
Better(a, b) ==
  \/ EndingRank(a) < EndingRank(b)
  \/ EndingRank(a) = EndingRank(b) /\ Len(a) < Len(b)

Min(m, n) == IF m < n THEN m ELSE n

\* C22: keep best domains leaves exactly the min(maxDomains, cart size)
\* best domains of the cart, ranked by ending first (.com, .app, .xyz) and
\* by shorter name among equal endings: no dropped domain is better than a
\* kept one.
C22_KeepBestKeepsBest ==
  [][keepBestDomains =>
       LET kept == Range(cart')
           dropped == Range(cart) \ kept
       IN  /\ Len(cart') = Min(maxDomains, Len(cart))
           /\ kept \subseteq Range(cart)
           /\ \A x \in kept, y \in dropped :
                ~Better(objects[y].name, objects[x].name)]_vars

\* C23: remove unavailable domains removes exactly the entries whose check
\* answered unavailable; the entries known available and the entries whose
\* check has not returned stay in the cart, in their order.
C23_RemoveOnlyUnavailable ==
  [][removeUnavailableDomains =>
       cart' = Filter(cart, {i \in DOMAIN cart :
                               objects[cart[i]].available # "false"})]_vars

\* Object o is an entry of the cart and has no availability status.
WithoutStatus(o) ==
  /\ o \in DOMAIN objects
  /\ \E i \in DOMAIN cart : cart[i] = o
  /\ objects[o].available = "undefined"

\* C24: when every started request returns, every domain of the cart
\* eventually has an availability status or has left the cart; none stays
\* without a status for ever, also after a failed request or an edit.
C24_EventuallyStatus ==
  \A o \in 1..MaxObjects : WithoutStatus(o) ~> ~WithoutStatus(o)

\* --------------------------------------------------- loader, revisited
\* C25: the promise that ends the load transaction is resolved, and the
\* transaction committed, only when no batch insert issued inside it is
\* still in flight.
C25_CommitAfterInserts ==
  (pc \in Datasets /\ trx = "resolved") => inFlightInserts = {}

\* ------------------------------------------------ cart properties, II
\* The set of domain names of cart c over the objects objs.
NameSet(objs, c) == {objs[c[i]].name : i \in DOMAIN c}

\* C26: a change of the cart made while a check is in flight is not lost:
\* applying the response of a check neither removes a domain from the cart
\* (one added since the check started) nor puts one back (one removed since).
C26_ResponseKeepsCartChanges ==
  [][checkDomainsResponse =>
       NameSet(objects', cart') = NameSet(objects, cart)]_vars

\* The cart undoLastAction installs, given the undo history and the cart.
undoneCart(history, c) ==
  IF Len(history) > 0 THEN history[Len(history)] ELSE c

\* A step of an action that modifies the cart, undo and redo apart; an Add
\* that is refused, or that finds the name in the cart, is none.
CartAction ==
  \/ addDomainToCart /\ cart' # cart
  \/ removeDomainFromCart
  \/ handleDomainNameChange
  \/ clearCart
  \/ removeUnavailableDomains
  \/ keepBestDomains
  \/ handlePurchase

\* C27: undo reverts the last action: right after any action that modifies
\* the cart (add, delete, edit of a name, clear, remove unavailable, keep
\* best, purchase), the cart that undo installs lists the domains the cart
\* held right before that action.
C27_UndoRevertsLastAction ==
  [][CartAction =>
       NamesOf(objects', undoneCart(cartHistory', cart'))
         = NamesOf(objects, cart)]_vars

\* The cart, undo history and redo stack redoLastAction leaves, given the
\* three before it.
redone(c, history, stack) ==
  IF Len(stack) > 0
  THEN [cart |-> stack[Len(stack)],
        cartHistory |-> Append(history, c),
        redoStack |-> dropLast(stack)]
  ELSE [cart |-> c, cartHistory |-> history, redoStack |-> stack]

\* C28: redo restores the state before the last undo: right after an undo,
\* redo leaves the cart, the undo history and the redo stack as they were
\* before the undo; and right after a newer action that modifies the cart
\* redo installs no cart undone earlier: it leaves the domains of the cart
\* as they are.
C28_RedoRestoresUndone ==
  [][/\ (undoLastAction /\ Len(cartHistory) > 0) =>
          redone(cart', cartHistory', redoStack')
            = [cart |-> cart, cartHistory |-> cartHistory,
               redoStack |-> redoStack]
     /\ CartAction =>
          NamesOf(objects', redone(cart', cartHistory', redoStack').cart)
            = NamesOf(objects', cart')]_vars

\* C29: the cart is written to local storage whenever it changes and read
\* back on mount: the stored cart lists the domains of the mounted cart,
\* and mounting installs the cart that was stored before the mount, the
\* save on mount not overwriting it first.
C29_CartSurvivesRemount ==
  /\ [](mounted => NamesOf(localStorage, [i \in DOMAIN localStorage |-> i])
                     = NamesOf(objects, cart))
  /\ [][mount => NamesOf(objects', cart')
                   = NamesOf(localStorage,
                             [i \in DOMAIN localStorage |-> i])]_vars

\* ================================================================ scraper
\* buildCompanyAndLaunchArticleJSONDatasets of challenge-2: the rows of
\* inputs/companies.csv are buffered and scraped in batches while the CSV
\* stream is paused.  A scrape (crawler.run) ends well or rejects.

\* Most data rows of the input file.
MaxCsvRows == 21

BUFFER_SIZE == 10

MAX_BATCH_SIZE == 10

InitScraper ==
  /\ PipelineIdle
  /\ HelpersIdle
  /\ CartIdle
  /\ csvLen \in 0..MaxCsvRows
  /\ rowCount = 0
  /\ rows = <<>>
  /\ paused = FALSE
  /\ streamEnded = FALSE
  /\ running = {}
  /\ handed = [r \in 1..csvLen |-> 0]
  /\ batch = NoBatch
  /\ settled = "pending"

\* resolve() or reject(err) on the returned promise: the first call settles
\* it, a later call has no effect.
settle(promise, how) == IF promise = "pending" THEN how ELSE promise

\* runCrawlersInBatches(urls) called by the handler by, up to its first
\* await: more than MAX_BATCH_SIZE urls throw, and the promise of the call
\* is rejected; otherwise scrapeCompany is called for each url of the
\* slice urls.slice(0, MAX_BATCH_SIZE) and Promise.all awaited.
runCrawlersInBatches(urls, by) ==
  IF Len(urls) > MAX_BATCH_SIZE
  THEN /\ batch' = [by |-> by, rejected |-> TRUE]
       /\ settled' = IF by = "data" THEN settle(settled, "rejected")
                     ELSE settled
       /\ UNCHANGED <<running, handed>>
  ELSE LET batchUrls == slice(urls, MAX_BATCH_SIZE) IN
       /\ running' = running \cup Range(batchUrls)
       /\ handed' = [r \in DOMAIN handed |->
                       handed[r] + Cardinality({i \in DOMAIN batchUrls :
                                                  batchUrls[i] = r})]
       /\ batch' = [by |-> by, rejected |-> FALSE]
       /\ UNCHANGED settled

\* .on('data', (row) => {...})
scraperOnData ==
  /\ ~paused
  /\ ~streamEnded
  /\ rowCount < csvLen
  /\ rowCount' = rowCount + 1
  /\ rows' = Append(rows, rowCount + 1)
  /\ IF rowCount' % BUFFER_SIZE = 0
     THEN /\ paused' = TRUE
          /\ runCrawlersInBatches(rows', "data")
     ELSE UNCHANGED <<paused, running, handed, batch, settled>>
  /\ UNCHANGED <<csvLen, streamEnded, pipelineVars, helperVars, cartVars>>

\* A scrape in flight ends.  The first rejection rejects Promise.all: the
\* call made by the 'data' handler runs .catch, which rejects the returned
\* promise and leaves the stream paused; the one awaited by the 'end'
\* handler makes the handler throw before resolve().  When the last scrape
\* of a batch ends well, the 'data' handler's .then clears the buffer and
\* resumes the stream, and the 'end' handler goes on to resolve().
scrapeSettles ==
  \E r \in running, ok \in BOOLEAN :
    /\ running' = running \ {r}
    /\ IF ~ok /\ ~batch.rejected
       THEN /\ batch' = [batch EXCEPT !.rejected = TRUE]
            /\ settled' = IF batch.by = "data"
                          THEN settle(settled, "rejected") ELSE settled
            /\ UNCHANGED <<rows, paused>>
       ELSE IF ok /\ running' = {} /\ ~batch.rejected
       THEN /\ batch' = NoBatch
            /\ IF batch.by = "data"
               THEN /\ rows' = <<>>
                    /\ paused' = FALSE
                    /\ UNCHANGED settled
               ELSE /\ settled' = settle(settled, "resolved")
                    /\ UNCHANGED <<rows, paused>>
       ELSE UNCHANGED <<batch, settled, rows, paused>>
    /\ UNCHANGED <<csvLen, rowCount, streamEnded, handed, pipelineVars,
                   helperVars, cartVars>>

\* .on('end', async () => {...})
scraperOnEnd ==
  /\ ~paused
  /\ ~streamEnded
  /\ rowCount = csvLen
  /\ streamEnded' = TRUE
  /\ IF Len(rows) > 0
     THEN runCrawlersInBatches(rows, "end")
     ELSE /\ settled' = settle(settled, "resolved")
          /\ UNCHANGED <<running, handed, batch>>
  /\ UNCHANGED <<csvLen, rowCount, rows, paused, pipelineVars, helperVars,
                 cartVars>>

\* stream.on('error', reject): reading the file fails before its last row
\* was taken; no 'data' or 'end' event follows.
scraperOnError ==
  /\ ~streamEnded
  /\ rowCount < csvLen
  /\ streamEnded' = TRUE
  /\ settled' = settle(settled, "rejected")
  /\ UNCHANGED <<csvLen, rowCount, rows, paused, running, handed, batch,
                 pipelineVars, helperVars, cartVars>>

NextScraper ==
  \/ scraperOnData
  \/ scrapeSettles
  \/ scraperOnEnd
  \/ scraperOnError

SpecScraper == InitScraper /\ [][NextScraper]_vars

\* C30: each row's URL is handed to scrapeCompany at most once, and once
\* when the returned promise is resolved; at most 10 scrapes run at a
\* time; the row buffer never holds more than 10 rows; and the returned
\* promise is settled only when no scrape is in flight any more.
C30_ScraperBatching ==
  /\ \A r \in DOMAIN handed : handed[r] <= 1
  /\ settled = "resolved" => \A r \in DOMAIN handed : handed[r] = 1
  /\ Cardinality(running) <= 10
  /\ Len(rows) <= 10
  /\ settled \in {"resolved", "rejected"} => running = {}

====
